---------------------------- MODULE Spec2Model ----------------------------
(***************************************************************************)
(* udot (index.mjs): mirroring of a source directory tree into a home      *)
(* directory by symbolic links.  The commands apply, restore, use, update  *)
(* and install are modelled over one POSIX-like filesystem.                *)
(*                                                                         *)
(* Strings are sequences of one-character strings, so that path.join,      *)
(* path.relative, String.startsWith and the pattern compiler are computed  *)
(* on the characters, as the code computes them.                           *)
(***************************************************************************)
EXTENDS Naturals, Sequences, FiniteSets, TLC

(***************************************************************************)
(* Bounds                                                                  *)
(***************************************************************************)
\* number of commands issued one after the other in one session
MaxCmds == 2
\* the longest path the filesystem accepts, in segments below the root
MaxDepth == 5

(***************************************************************************)
(* Strings                                                                 *)
(***************************************************************************)
EMPTY == << >>

\* a prefix test that looks at the first character only
SameHead(str, prefix) ==
  prefix = << >> \/ (str # << >> /\ str[1] = prefix[1])

StartsWith(str, prefix) ==
  /\ Len(prefix) <= Len(str)
  /\ SubSeq(str, 1, Len(prefix)) = prefix

RECURSIVE SplitAcc(_, _, _, _)
SplitAcc(str, sep, cur, acc) ==
  IF str = EMPTY THEN Append(acc, cur)
  ELSE IF Head(str) = sep
       THEN SplitAcc(Tail(str), sep, EMPTY, Append(acc, cur))
       ELSE SplitAcc(Tail(str), sep, Append(cur, Head(str)), acc)

\* String.prototype.split(sep) for a one-character separator
Split(str, sep) == SplitAcc(str, sep, EMPTY, << >>)

RECURSIVE JoinWith(_, _)
\* Array.prototype.join(sep)
JoinWith(parts, sep) ==
  IF parts = << >> THEN EMPTY
  ELSE IF Len(parts) = 1 THEN parts[1]
  ELSE parts[1] \o <<sep>> \o JoinWith(Tail(parts), sep)

IsSpace(ch) == ch \in {" ", "\t", "\r"}

RECURSIVE TrimStart(_)
TrimStart(str) ==
  IF str # EMPTY /\ IsSpace(Head(str)) THEN TrimStart(Tail(str)) ELSE str

RECURSIVE TrimEnd(_)
TrimEnd(str) ==
  IF str # EMPTY /\ IsSpace(str[Len(str)])
  THEN TrimEnd(SubSeq(str, 1, Len(str) - 1)) ELSE str

\* String.prototype.trim()
Trim(str) == TrimEnd(TrimStart(str))

SelectNonEmpty(parts) == SelectSeq(parts, LAMBDA p : p # EMPTY)

(***************************************************************************)
(* node:path (posix)                                                       *)
(***************************************************************************)
\* process.cwd(), as a list of segments below the root
Cwd == << >>

IsAbsolute(p) == p # EMPTY /\ Head(p) = "/"

DOTDOT == <<".", ".">>

RECURSIVE NormalizeSegs(_, _, _)
\* normalizeString: drops empty and "." segments and resolves ".."
NormalizeSegs(segs, allowAboveRoot, res) ==
  IF segs = << >> THEN res
  ELSE LET seg == Head(segs)
           rest == Tail(segs)
       IN IF seg = EMPTY \/ seg = <<".">>
          THEN NormalizeSegs(rest, allowAboveRoot, res)
          ELSE IF seg = DOTDOT
          THEN IF res # << >> /\ res[Len(res)] # DOTDOT
               THEN NormalizeSegs(rest, allowAboveRoot,
                                  SubSeq(res, 1, Len(res) - 1))
               ELSE IF allowAboveRoot
                    THEN NormalizeSegs(rest, allowAboveRoot, Append(res, seg))
                    ELSE NormalizeSegs(rest, allowAboveRoot, res)
          ELSE NormalizeSegs(rest, allowAboveRoot, Append(res, seg))

\* path.normalize
PathNormalize(p) ==
  IF p = EMPTY THEN <<".">>
  ELSE LET abs == IsAbsolute(p)
           trailing == p[Len(p)] = "/"
           body == JoinWith(NormalizeSegs(Split(p, "/"), ~abs, << >>), "/")
       IN IF body = EMPTY
          THEN IF abs THEN <<"/">>
               ELSE IF trailing THEN <<".", "/">> ELSE <<".">>
          ELSE (IF abs THEN <<"/">> ELSE EMPTY) \o body
               \o (IF trailing THEN <<"/">> ELSE EMPTY)

\* path.join(a, b)
PathJoin(a, b) ==
  LET joined == IF a = EMPTY THEN b
                ELSE IF b = EMPTY THEN a
                ELSE a \o <<"/">> \o b
  IN IF joined = EMPTY THEN <<".">> ELSE PathNormalize(joined)

\* path.resolve(p), as the list of segments below the root
PathResolve(p) ==
  IF IsAbsolute(p) THEN NormalizeSegs(Split(p, "/"), FALSE, << >>)
  ELSE NormalizeSegs(Cwd \o Split(p, "/"), FALSE, << >>)

RECURSIVE CommonLen(_, _)
CommonLen(xs, ys) ==
  IF xs = << >> \/ ys = << >> \/ Head(xs) # Head(ys) THEN 0
  ELSE 1 + CommonLen(Tail(xs), Tail(ys))

\* path.relative(from, to)
PathRelative(from, to) ==
  IF from = to THEN EMPTY
  ELSE LET f == PathResolve(from)
           t == PathResolve(to)
           k == CommonLen(f, t)
           ups == [i \in 1..(Len(f) - k) |-> DOTDOT]
       IN IF f = t THEN EMPTY
          ELSE JoinWith(ups \o SubSeq(t, k + 1, Len(t)), "/")

\* path.basename for a path without a trailing separator
PathBasename(p) ==
  LET segs == Split(p, "/") IN segs[Len(segs)]

(***************************************************************************)
(* The filesystem: a function from the absolute path of every existing     *)
(* entry (a list of segments, << >> is the root) to the entry.             *)
(***************************************************************************)
Dir == [kind |-> "dir", val |-> EMPTY]
File(content) == [kind |-> "file", val |-> content]
Link(value) == [kind |-> "link", val |-> value]

Parent(path) == SubSeq(path, 1, Len(path) - 1)

Children(f, path) ==
  {q \in DOMAIN f : Len(q) = Len(path) + 1 /\ Parent(q) = path}

IsTrivial(comps) == \A i \in 1..Len(comps) : comps[i] \in {EMPTY, <<".">>}

RECURSIVE Walk(_, _, _, _, _)
\* Path resolution of the kernel: cur is an existing directory, comps the
\* components still to look up.  st = "ok": the entry at; st = "noent": no
\* entry at, but its parent directory exists; st = "err": code.
Walk(f, cur, comps, follow, fuel) ==
  IF comps = << >> THEN [st |-> "ok", at |-> cur, code |-> ""]
  ELSE LET c == Head(comps)
           rest == Tail(comps)
           child == Append(cur, c)
       IN IF c = EMPTY \/ c = <<".">> THEN Walk(f, cur, rest, follow, fuel)
          ELSE IF c = DOTDOT
          THEN Walk(f, IF cur = << >> THEN cur ELSE Parent(cur), rest, follow, fuel)
          ELSE IF child \notin DOMAIN f
          THEN IF IsTrivial(rest)
               THEN [st |-> "noent", at |-> child, code |-> "ENOENT"]
               ELSE [st |-> "err", at |-> child, code |-> "ENOENT"]
          ELSE IF f[child].kind = "link" /\ (follow \/ ~IsTrivial(rest))
          THEN IF fuel = 0
               THEN [st |-> "err", at |-> child, code |-> "ELOOP"]
               ELSE LET v == f[child].val
                    IN IF v = EMPTY
                       THEN [st |-> "err", at |-> child, code |-> "ENOENT"]
                       ELSE Walk(f, IF IsAbsolute(v) THEN << >> ELSE cur,
                                 Split(v, "/") \o rest, follow, fuel - 1)
          ELSE IF f[child].kind = "dir" THEN Walk(f, child, rest, follow, fuel)
          ELSE IF IsTrivial(rest)
               THEN [st |-> "ok", at |-> child, code |-> ""]
               ELSE [st |-> "err", at |-> child, code |-> "ENOTDIR"]

Lookup(f, p, follow) ==
  IF p = EMPTY THEN [st |-> "err", at |-> << >>, code |-> "ENOENT"]
  ELSE Walk(f, IF IsAbsolute(p) THEN << >> ELSE Cwd, Split(p, "/"), follow,
            Cardinality(DOMAIN f))

\* results of a filesystem call
Ok(f) == [ok |-> TRUE, fs |-> f, code |-> ""]
Err(f, code) == [ok |-> FALSE, fs |-> f, code |-> code]

\* fs.promises.access(p): does the path resolve (links followed)
FsAccess(f, p) == Lookup(f, p, TRUE).st = "ok"

\* fs.promises.lstat(p): the kind of the entry itself, or "none"
FsLstat(f, p) ==
  LET r == Lookup(f, p, FALSE)
  IN IF r.st = "ok" THEN f[r.at].kind ELSE "none"

\* fs.promises.readlink(p) of an entry that lstat reported as a link
FsReadlink(f, p) == f[Lookup(f, p, FALSE).at].val

\* fs.promises.readFile(p, 'utf8') of a path that access reported
FsReadFile(f, p) == f[Lookup(f, p, TRUE).at].val

\* can fs.promises.readdir(p) list the path
FsIsDir(f, p) ==
  LET r == Lookup(f, p, TRUE) IN r.st = "ok" /\ f[r.at].kind = "dir"

\* fs.promises.readdir(p, {withFileTypes: true}): the entries of the
\* directory, each with its name and its own kind (links not followed)
FsReaddir(f, p) ==
  LET at == Lookup(f, p, TRUE).at
  IN {[name |-> q[Len(q)], kind |-> f[q].kind] : q \in Children(f, at)}

FsCreate(f, p, entry) ==
  LET r == Lookup(f, p, FALSE)
  IN IF r.st = "ok" THEN Err(f, "EEXIST")
     ELSE IF r.st = "err" THEN Err(f, r.code)
     ELSE IF Len(r.at) > MaxDepth THEN Err(f, "ENAMETOOLONG")
     ELSE Ok([q \in DOMAIN f \cup {r.at} |-> IF q = r.at THEN entry ELSE f[q]])

\* a mkdir that accepts a directory that is there already ({recursive: true})
FsMkdirRecursive(f, p) ==
  IF Lookup(f, p, FALSE).st = "ok" /\ FsIsDir(f, p) THEN Ok(f)
  ELSE FsCreate(f, p, Dir)

\* fs.promises.mkdir(p)
FsMkdir(f, p) == FsCreate(f, p, Dir)

\* a symlink call that replaces whatever entry but a directory is at p
FsSymlinkForce(f, value, p) ==
  LET r == Lookup(f, p, FALSE)
  IN IF r.st = "ok" /\ f[r.at].kind # "dir"
     THEN Ok([f EXCEPT ![r.at] = Link(value)])
     ELSE FsCreate(f, p, Link(value))

\* fs.promises.symlink(value, p)
FsSymlink(f, value, p) == FsCreate(f, p, Link(value))

\* an unlink that also removes the directory it leaves empty
FsUnlinkPrune(f, p) ==
  LET r == Lookup(f, p, FALSE)
      gone == IF r.st = "ok" /\ r.at # << >> /\ Parent(r.at) # << >>
                 /\ Children(f, Parent(r.at)) = {r.at}
              THEN {r.at, Parent(r.at)} ELSE {r.at}
  IN IF r.st # "ok" THEN Err(f, r.code)
     ELSE IF f[r.at].kind = "dir" THEN Err(f, "EPERM")
     ELSE Ok([q \in DOMAIN f \ gone |-> f[q]])

\* fs.promises.unlink(p)
FsUnlink(f, p) ==
  LET r == Lookup(f, p, FALSE)
  IN IF r.st # "ok" THEN Err(f, r.code)
     ELSE IF f[r.at].kind = "dir" THEN Err(f, "EPERM")
     ELSE Ok([q \in DOMAIN f \ {r.at} |-> f[q]])

\* fs.promises.rmdir(p)
FsRmdir(f, p) ==
  LET r == Lookup(f, p, FALSE)
  IN IF r.st # "ok" THEN Err(f, r.code)
     ELSE IF f[r.at].kind # "dir" THEN Err(f, "ENOTDIR")
     ELSE IF Children(f, r.at) # {} THEN Err(f, "ENOTEMPTY")
     ELSE IF r.at = << >> THEN Err(f, "EBUSY")
     ELSE Ok([q \in DOMAIN f \ {r.at} |-> f[q]])


(***************************************************************************)
(* Names used by the program and by the modelled trees                     *)
(***************************************************************************)
DOT_GIT == <<".", "g", "i", "t">>
README_MD == <<"R", "E", "A", "D", "M", "E", ".", "m", "d">>
DOTIGNORE == <<".", "d", "o", "t", "i", "g", "n", "o", "r", "e">>

\* the built-in list of getIgnoreFunction
DefaultIgnorePatterns ==
  << <<".", "g", "i", "t", "i", "g", "n", "o", "r", "e">>,
     <<".", "v", "s", "c", "o", "d", "e">>,
     <<".", "D", "S", "_", "S", "t", "o", "r", "e">>,
     <<"n", "o", "d", "e", "_", "m", "o", "d", "u", "l", "e", "s">>,
     <<"p", "a", "c", "k", "a", "g", "e", "-", "l", "o", "c", "k", ".", "j", "s", "o", "n">>,
     <<"p", "a", "c", "k", "a", "g", "e", ".", "j", "s", "o", "n">> >>

(***************************************************************************)
(* Ignore matcher                                                          *)
(***************************************************************************)
RECURSIVE ReplaceAll(_, _, _)
\* String.prototype.replace(/ch/g, by)
ReplaceAll(str, ch, by) ==
  IF str = EMPTY THEN EMPTY
  ELSE (IF Head(str) = ch THEN by ELSE <<Head(str)>>)
       \o ReplaceAll(Tail(str), ch, by)

\* pattern.replace(/\/$/, '')
StripTrailingSlash(pattern) ==
  IF pattern # EMPTY /\ pattern[Len(pattern)] = "/"
  THEN SubSeq(pattern, 1, Len(pattern) - 1) ELSE pattern

\* the source of the regular expression between ^ and $
RegExpSource(ignorePattern) ==
  ReplaceAll(ReplaceAll(StripTrailingSlash(ignorePattern), ".", <<"\\", ".">>),
             "*", <<".", "*">>)

RECURSIVE RegExpMatch(_, _)
\* does the regular expression ^re$ match str: literals, escapes, the
\* any-character dot and the quantifiers *, + and ? that follow an atom
RegExpMatch(re, str) ==
  IF re = EMPTY THEN str = EMPTY
  ELSE LET n == IF Head(re) = "\\" /\ Len(re) > 1 THEN 2 ELSE 1
           rest == SubSeq(re, n + 1, Len(re))
           AtomMatches(ch) == IF n = 2 THEN ch = re[2]
                              ELSE re[1] = "." \/ ch = re[1]
       IN IF rest # EMPTY /\ Head(rest) = "*"
          THEN \/ RegExpMatch(Tail(rest), str)
               \/ str # EMPTY /\ AtomMatches(Head(str)) /\ RegExpMatch(re, Tail(str))
          ELSE IF rest # EMPTY /\ Head(rest) = "+"
          THEN /\ str # EMPTY
               /\ AtomMatches(Head(str))
               /\ \/ RegExpMatch(Tail(rest), Tail(str))
                  \/ RegExpMatch(re, Tail(str))
          ELSE IF rest # EMPTY /\ Head(rest) = "?"
          THEN \/ RegExpMatch(Tail(rest), str)
               \/ /\ str # EMPTY
                  /\ AtomMatches(Head(str))
                  /\ RegExpMatch(Tail(rest), Tail(str))
          ELSE str # EMPTY /\ AtomMatches(Head(str)) /\ RegExpMatch(rest, Tail(str))

\* a closure that asks every pattern to match, not some pattern
IsIgnoredByEvery(ignoreRegExps, name) ==
  \A i \in 1..Len(ignoreRegExps) : RegExpMatch(ignoreRegExps[i], name)

\* the closure returned by getIgnoreFunction, applied to a name
IsIgnored(ignoreRegExps, name) ==
  \E i \in 1..Len(ignoreRegExps) : RegExpMatch(ignoreRegExps[i], name)

\* the lines of the ignore file: split, trim, drop the empty ones
IgnoreFileLines(content) ==
  LET lines == Split(content, "\n")
  IN SelectNonEmpty([i \in 1..Len(lines) |-> Trim(lines[i])])

\* a pattern list that keeps the built-in list next to the lines of the file
GetIgnoreFunctionMerged(f, ctx) ==
  LET ignoreFilePath == ctx.excludesFile
      base == IF FsAccess(f, ignoreFilePath)
              THEN IgnoreFileLines(FsReadFile(f, ignoreFilePath))
                   \o DefaultIgnorePatterns
              ELSE DefaultIgnorePatterns
      ignorePatterns == base \o <<DOT_GIT, README_MD>> \o ctx.exclude
  IN [i \in 1..Len(ignorePatterns) |-> RegExpSource(ignorePatterns[i])]

\* a pattern list in which an ignore file also replaces the mandatory names
\* and the excludes
GetIgnoreFunctionFileOnly(f, ctx) ==
  LET ignoreFilePath == ctx.excludesFile
      ignorePatterns ==
        IF FsAccess(f, ignoreFilePath)
        THEN IgnoreFileLines(FsReadFile(f, ignoreFilePath))
        ELSE DefaultIgnorePatterns \o <<DOT_GIT, README_MD>> \o ctx.exclude
  IN [i \in 1..Len(ignorePatterns) |-> RegExpSource(ignorePatterns[i])]

\* getIgnoreFunction: the list of compiled patterns
GetIgnoreFunction(f, ctx) ==
  LET ignoreFilePath == ctx.excludesFile
      base == IF FsAccess(f, ignoreFilePath)
              THEN IgnoreFileLines(FsReadFile(f, ignoreFilePath))
              ELSE DefaultIgnorePatterns
      ignorePatterns == base \o <<DOT_GIT, README_MD>> \o ctx.exclude
  IN [i \in 1..Len(ignorePatterns) |-> RegExpSource(ignorePatterns[i])]

(***************************************************************************)
(* Link inspector and mutation gate                                        *)
(***************************************************************************)
IsExists(f, fpath) == FsAccess(f, fpath)

\* a test that takes any entry for a symbolic link
IsEntryExists(f, target) == FsLstat(f, target) # "none"

IsSymbolicLinkExists(f, target) == FsLstat(f, target) = "link"

\* an ownership check that takes every symbolic link for a managed one
IsSymbolicLinkFromAny(f, target, base) == IsSymbolicLinkExists(f, target)

IsSymbolicLinkFrom(f, target, base) ==
  /\ IsSymbolicLinkExists(f, target)
  /\ StartsWith(FsReadlink(f, target), base)

IsDryrun(ctx) == ctx.dryRun

\* mutating(fn)(...args): what the call does, invoke fn or return the
\* placeholder at once
MutatingUngated(ctx, invoke, placeholder) == invoke

Mutating(ctx, invoke, placeholder) ==
  IF IsDryrun(ctx) THEN placeholder ELSE invoke


(***************************************************************************)
(* The modelled machine: its trees and the forms of the arguments          *)
(***************************************************************************)
SRC == <<"s">>
HOME == <<"h">>
NAME_A == <<"a">>
NAME_B == <<"b">>
NAME_C == <<"c">>
NAME_D == <<"d">>
NAME_U == <<"u">>

\* --base-dir and --home-dir, all naming /s and /h from the working directory
BaseDirForms == {<<"/", "s">>, <<"s">>, <<".", "/", "s">>}
HomeDirForms == {<<"/", "h">>, <<".", "/", "h">>}

FsOf(entries) ==
  [p \in {e[1] : e \in entries} |-> (CHOOSE e \in entries : e[1] = p)[2]]

\* source trees below /s
SourceTrees ==
  { { <<<<SRC, NAME_A>>, File(<<"1">>)>>,
      <<<<SRC, NAME_D>>, Dir>>,
      <<<<SRC, NAME_D, NAME_B>>, File(<<"2">>)>> },
    { <<<<SRC, NAME_A>>, File(<<"1">>)>>,
      <<<<SRC, NAME_D>>, Dir>> },
    { <<<<SRC, NAME_A>>, File(<<"1">>)>>,
      <<<<SRC, README_MD>>, File(<<"3">>)>>,
      <<<<SRC, DOT_GIT>>, Dir>>,
      <<<<SRC, DOT_GIT, NAME_C>>, File(<<"4">>)>> } }

\* what occupies /h/a before the session
TargetsA ==
  { {},
    { <<<<HOME, NAME_A>>, File(<<"9">>)>> },
    { <<<<HOME, NAME_A>>, Link(<<"/", "s", "/", "a">>)>> },
    { <<<<HOME, NAME_A>>, Link(<<"/", "x">>)>> } }

\* what occupies /h/d before the session
TargetsD ==
  { {},
    { <<<<HOME, NAME_D>>, Dir>> },
    { <<<<HOME, NAME_D>>, Dir>>, <<<<HOME, NAME_D, NAME_U>>, File(<<"8">>)>> },
    { <<<<HOME, NAME_D>>, File(<<"7">>)>> } }

\* the trees before the session: homeDir missing, or homeDir with what
\* occupies the mirrored paths of the source entries
InitialFilesystems ==
  { FsOf({<<<< >>, Dir>>, <<<<SRC>>, Dir>>} \cup tree) : tree \in SourceTrees }
  \cup
  UNION { { FsOf({<<<< >>, Dir>>, <<<<SRC>>, Dir>>, <<<<HOME>>, Dir>>}
                 \cup tree \cup ta \cup td) :
              ta \in TargetsA,
              td \in IF \E e \in tree : e[1] = <<SRC, NAME_D>>
                     THEN TargetsD ELSE {{}} } :
          tree \in SourceTrees }

(***************************************************************************)
(* State                                                                   *)
(***************************************************************************)
VARIABLES
  fs,        \* the filesystem
  baseDir,   \* --base-dir of the session
  homeDir,   \* --home-dir of the session
  cur,       \* the command that is running
  last,      \* the command that ran before it
  tasks,     \* the pending asynchronous calls of the running command
  ncmds,     \* commands started so far
  other      \* a second command of the process and its pending calls, while
             \* the event loop runs the calls of cur

vars == <<fs, baseDir, homeDir, cur, last, tasks, ncmds, other>>

NoTasks == [k \in {} |-> [kind |-> "file", pc |-> "done", parent |-> EMPTY]]

NoContext == [dryRun |-> FALSE, exclude |-> << >>, excludesFile |-> EMPTY]

NoCommand ==
  [active |-> FALSE, cmd |-> "none", ctx |-> NoContext, path |-> EMPTY,
   before |-> FsOf({<<<< >>, Dir>>}),
   log |-> {}, ops |-> {}, errs |-> {}, ignore |-> << >>]

\* no second command
Idle == [cur |-> NoCommand, tasks |-> NoTasks]

\* the store passed to contextProvider.run by exec
Context(dryRun) ==
  [dryRun |-> dryRun, exclude |-> << >>,
   excludesFile |-> PathJoin(baseDir, DOTIGNORE)]

Op(name, arg) == [op |-> name, arg |-> arg]
Plus(target, source) == [sign |-> "+", target |-> target, source |-> source]
Minus(target) == [sign |-> "-", target |-> target, source |-> EMPTY]

\* a mirrored path that keeps the name and drops the directories
TargetFlat(source) == PathJoin(homeDir, PathBasename(source))

\* the mirrored path of a source path
Target(source) == PathJoin(homeDir, PathRelative(baseDir, source))

Task(kind, pc, parent) == [kind |-> kind, pc |-> pc, parent |-> parent]

Settled(ts) == \A k \in DOMAIN ts : ts[k].pc \in {"done", "failed"}

\* which tree walk a command runs
Walker(cmd) == IF cmd \in {"restore", "ls"} THEN cmd ELSE "apply"

RECURSIVE Settle(_, _)
\* Promise.all: a directory whose entries are all done goes on (restore: to
\* its cleanup check), one with a rejected entry rejects at once
Settle(ts, cmd) ==
  LET waiting == {k \in DOMAIN ts : ts[k].pc = "wait"}
      kids(k) == {c \in DOMAIN ts : ts[c].parent = k}
      rejected == {k \in waiting : \E c \in kids(k) : ts[c].pc = "failed"}
      fulfilled == {k \in waiting : \A c \in kids(k) : ts[c].pc = "done"}
      next == IF Walker(cmd) = "restore" THEN "cexists" ELSE "done"
  IN IF rejected \cup fulfilled = {} THEN ts
     ELSE Settle([k \in DOMAIN ts |->
                    IF k \in rejected THEN [ts[k] EXCEPT !.pc = "failed"]
                    ELSE IF k \in fulfilled THEN [ts[k] EXCEPT !.pc = next]
                    ELSE ts[k]], cmd)

Init ==
  /\ fs \in InitialFilesystems
  /\ baseDir \in BaseDirForms
  /\ homeDir \in HomeDirForms
  /\ cur = NoCommand
  /\ last = NoCommand
  /\ tasks = NoTasks
  /\ ncmds = 0
  /\ other = Idle


(***************************************************************************)
(* Steps shared by the commands                                            *)
(***************************************************************************)
Running(walker) == cur.active /\ Walker(cur.cmd) = walker

At(k, pc) == k \in DOMAIN tasks /\ tasks[k].pc = pc

Goto(k, pc) == [tasks EXCEPT ![k].pc = pc]

\* the error of a readdir that cannot list the path
ReaddirCode(f, p) ==
  LET r == Lookup(f, p, TRUE) IN IF r.st = "ok" THEN "ENOTDIR" ELSE r.code

\* process.exit in the catch of use: nothing pending runs any more
Abort(ts) ==
  [k \in DOMAIN ts |-> IF ts[k].pc = "done" THEN ts[k]
                       ELSE [ts[k] EXCEPT !.pc = "failed"]]

\* one step of a pending call: the tree, the calls, and what it adds to the
\* log, to the primitives invoked and to the errors raised
Step(f2, ts2, log2, ops2, errs2) ==
  /\ fs' = f2
  /\ tasks' = IF errs2 # {} /\ cur.cmd = "use" THEN Abort(ts2)
              ELSE Settle(ts2, cur.cmd)
  /\ cur' = [cur EXCEPT !.log = @ \cup log2, !.ops = @ \cup ops2,
                        !.errs = @ \cup errs2]
  /\ UNCHANGED <<baseDir, homeDir, last, ncmds, other>>

\* a start that keeps the context in one variable of the process: the store
\* of the new command replaces the store of the command started before
BeginShared(cmd, ctx, path, st) ==
  /\ ~cur.active
  /\ ncmds < MaxCmds
  /\ ncmds' = ncmds + 1
  /\ fs' = st.fs
  /\ tasks' = Settle(st.tasks, cmd)
  /\ cur' = [active |-> TRUE, cmd |-> cmd, ctx |-> ctx, path |-> path,
             before |-> fs, log |-> st.log, ops |-> st.ops,
             errs |-> st.errs, ignore |-> st.ignore]
  /\ other' = [other EXCEPT !.cur.ctx = IF other.cur.active THEN ctx ELSE @]
  /\ UNCHANGED <<baseDir, homeDir, last>>

\* the start of a command: exec has parsed the arguments and set the context
Begin(cmd, ctx, path, st) ==
  /\ ~cur.active
  /\ ncmds < MaxCmds
  /\ ncmds' = ncmds + 1
  /\ fs' = st.fs
  /\ tasks' = Settle(st.tasks, cmd)
  /\ cur' = [active |-> TRUE, cmd |-> cmd, ctx |-> ctx, path |-> path,
             before |-> fs, log |-> st.log, ops |-> st.ops,
             errs |-> st.errs, ignore |-> st.ignore]
  /\ UNCHANGED <<baseDir, homeDir, last, other>>

Started(f, log, ops, errs, ignore, ts) ==
  [fs |-> f, log |-> log, ops |-> ops, errs |-> errs, ignore |-> ignore,
   tasks |-> ts]

\* the command has settled: every pending call is done or has failed
Finish ==
  /\ cur.active
  /\ Settled(tasks)
  /\ last' = [cur EXCEPT !.active = FALSE]
  /\ cur' = NoCommand
  /\ tasks' = NoTasks
  /\ UNCHANGED <<fs, baseDir, homeDir, ncmds, other>>

(***************************************************************************)
(* apply                                                                   *)
(***************************************************************************)
\* apply up to processDir(baseDir): homeDir is created when it is missing
ApplyStart(f, ctx) ==
  LET invoke == /\ ~IsExists(f, homeDir)
                /\ Mutating(ctx, "invoke", "placeholder") = "invoke"
      r == IF invoke THEN FsMkdir(f, homeDir) ELSE Ok(f)
  IN IF r.ok
     THEN Started(r.fs, {}, IF invoke THEN {Op("mkdir", homeDir)} ELSE {}, {},
                  GetIgnoreFunction(r.fs, ctx),
                  baseDir :> Task("dir", "readdir", EMPTY))
     ELSE Started(r.fs, {}, {Op("mkdir", homeDir)}, {r.code}, << >>, NoTasks)

ExecApply(dryRun) ==
  Begin("apply", Context(dryRun), EMPTY, ApplyStart(fs, Context(dryRun)))

\* processDir of apply: readdir, then one call per entry that is not ignored
ApplyReaddir(k) ==
  /\ Running("apply")
  /\ At(k, "readdir")
  /\ IF ~FsIsDir(fs, k)
     THEN Step(fs, Goto(k, "failed"), {}, {}, {ReaddirCode(fs, k)})
     ELSE LET files == {e \in FsReaddir(fs, k) :
                          /\ ~IsIgnored(cur.ignore, e.name)
                          /\ e.kind \in {"file", "dir"}}
              KindOf(s) == (CHOOSE e \in files : PathJoin(k, e.name) = s).kind
              entries == [s \in {PathJoin(k, e.name) : e \in files} |->
                            Task(KindOf(s), "check", k)]
          IN Step(fs, entries @@ Goto(k, "wait"), {}, {}, {})

\* isExists(target) and the branch taken on it
ApplyCheck(k) ==
  /\ Running("apply")
  /\ At(k, "check")
  /\ LET target == Target(k)
         exists == IsExists(fs, target)
     IN IF tasks[k].kind = "file"
        THEN IF exists THEN Step(fs, Goto(k, "done"), {}, {}, {})
             ELSE Step(fs, Goto(k, Mutating(cur.ctx, "symlink", "done")),
                       {Plus(target, k)}, {}, {})
        ELSE IF exists THEN Step(fs, Goto(k, "readdir"), {}, {}, {})
             ELSE Step(fs, Goto(k, Mutating(cur.ctx, "mkdir", "readdir")),
                       {}, {}, {})

\* fs.promises.symlink(source, target)
ApplySymlink(k) ==
  /\ Running("apply")
  /\ At(k, "symlink")
  /\ LET r == FsSymlink(fs, k, Target(k))
     IN Step(r.fs, Goto(k, IF r.ok THEN "done" ELSE "failed"), {},
             {Op("symlink", Target(k))}, IF r.ok THEN {} ELSE {r.code})

\* a mkdir that is not awaited: processDir(source) starts before it has run
ApplyMkdirUnawaited(k) ==
  /\ Running("apply")
  /\ At(k, "mkdir")
  /\ Step(fs, Goto(k, "readdir"), {}, {}, {})

\* fs.promises.mkdir(target), then processDir(source)
ApplyMkdir(k) ==
  /\ Running("apply")
  /\ At(k, "mkdir")
  /\ LET r == FsMkdir(fs, Target(k))
     IN Step(r.fs, Goto(k, IF r.ok THEN "readdir" ELSE "failed"), {},
             {Op("mkdir", Target(k))}, IF r.ok THEN {} ELSE {r.code})

(***************************************************************************)
(* restore                                                                 *)
(***************************************************************************)
\* restore up to processDir: the single-path mode is decided here
RestoreStart(f, ctx, filePath) ==
  IF filePath = EMPTY
  THEN Started(f, {}, {}, {}, << >>, baseDir :> Task("dir", "readdir", EMPTY))
  ELSE LET kind == FsLstat(f, filePath)
       IN IF kind = "none"
          THEN Started(f, {}, {}, {Lookup(f, filePath, FALSE).code}, << >>, NoTasks)
          ELSE IF kind = "link"
          THEN LET invoke == Mutating(ctx, "invoke", "placeholder") = "invoke"
                   r == IF invoke THEN FsUnlink(f, filePath) ELSE Ok(f)
               IN Started(r.fs, {Minus(filePath)},
                          IF invoke THEN {Op("unlink", filePath)} ELSE {},
                          IF r.ok THEN {} ELSE {r.code}, << >>, NoTasks)
          ELSE IF kind # "dir"
          THEN Started(f, {}, {}, {}, << >>, NoTasks)
          ELSE Started(f, {}, {}, {}, << >>,
                       filePath :> Task("dir", "readdir", EMPTY))

\* the optional <path> of restore: none, the mirrored path of a, the source
\* directory d
RestorePaths ==
  {EMPTY, PathJoin(homeDir, NAME_A), PathJoin(baseDir, NAME_D)}

ExecRestore(dryRun, filePath) ==
  Begin("restore", Context(dryRun), filePath,
        RestoreStart(fs, Context(dryRun), filePath))

\* a processDir of restore that does not wait for its entries before its
\* cleanup
RestoreReaddirUnawaited(k) ==
  /\ Running("restore")
  /\ At(k, "readdir")
  /\ IF ~FsIsDir(fs, k)
     THEN Step(fs, Goto(k, "failed"), {}, {}, {ReaddirCode(fs, k)})
     ELSE LET files == {e \in FsReaddir(fs, k) : e.kind \in {"file", "dir"}}
              KindOf(s) == (CHOOSE e \in files : PathJoin(k, e.name) = s).kind
              entries == [s \in {PathJoin(k, e.name) : e \in files} |->
                            Task(KindOf(s),
                                 IF KindOf(s) = "file" THEN "islink" ELSE "readdir",
                                 EMPTY)]
          IN Step(fs, entries @@ Goto(k, "cexists"), {}, {}, {})

\* a processDir of restore that skips the names apply ignores
RestoreReaddirIgnoring(k) ==
  /\ Running("restore")
  /\ At(k, "readdir")
  /\ IF ~FsIsDir(fs, k)
     THEN Step(fs, Goto(k, "failed"), {}, {}, {ReaddirCode(fs, k)})
     ELSE LET ignore == GetIgnoreFunction(cur.before, cur.ctx)
              files == {e \in FsReaddir(fs, k) :
                          /\ ~IsIgnored(ignore, e.name)
                          /\ e.kind \in {"file", "dir"}}
              KindOf(s) == (CHOOSE e \in files : PathJoin(k, e.name) = s).kind
              entries == [s \in {PathJoin(k, e.name) : e \in files} |->
                            Task(KindOf(s),
                                 IF KindOf(s) = "file" THEN "islink" ELSE "readdir",
                                 k)]
          IN Step(fs, entries @@ Goto(k, "wait"), {}, {}, {})

\* processDir of restore: readdir, then one call per file and directory
RestoreReaddir(k) ==
  /\ Running("restore")
  /\ At(k, "readdir")
  /\ IF ~FsIsDir(fs, k)
     THEN Step(fs, Goto(k, "failed"), {}, {}, {ReaddirCode(fs, k)})
     ELSE LET files == {e \in FsReaddir(fs, k) : e.kind \in {"file", "dir"}}
              KindOf(s) == (CHOOSE e \in files : PathJoin(k, e.name) = s).kind
              entries == [s \in {PathJoin(k, e.name) : e \in files} |->
                            Task(KindOf(s),
                                 IF KindOf(s) = "file" THEN "islink" ELSE "readdir",
                                 k)]
          IN Step(fs, entries @@ Goto(k, "wait"), {}, {}, {})

\* isSymbolicLinkFrom(target, baseDir) and the branch taken on it
RestoreIsLink(k) ==
  /\ Running("restore")
  /\ At(k, "islink")
  /\ LET target == Target(k)
     IN IF IsSymbolicLinkFrom(fs, target, baseDir)
        THEN Step(fs, Goto(k, Mutating(cur.ctx, "unlink", "done")),
                  {Minus(target)}, {}, {})
        ELSE Step(fs, Goto(k, "done"), {}, {}, {})

\* fs.promises.unlink(target)
RestoreUnlink(k) ==
  /\ Running("restore")
  /\ At(k, "unlink")
  /\ LET r == FsUnlink(fs, Target(k))
     IN Step(r.fs, Goto(k, IF r.ok THEN "done" ELSE "failed"), {},
             {Op("unlink", Target(k))}, IF r.ok THEN {} ELSE {r.code})

\* after the entries: isExists(targetDir)
RestoreExists(k) ==
  /\ Running("restore")
  /\ At(k, "cexists")
  /\ Step(fs, Goto(k, IF IsExists(fs, Target(k)) THEN "creaddir" ELSE "done"),
          {}, {}, {})

\* readdir(targetDir).length === 0 && targetDir !== homeDir
RestoreEmpty(k) ==
  /\ Running("restore")
  /\ At(k, "creaddir")
  /\ LET targetDir == Target(k)
     IN IF ~FsIsDir(fs, targetDir)
        THEN Step(fs, Goto(k, "failed"), {}, {}, {ReaddirCode(fs, targetDir)})
        ELSE IF FsReaddir(fs, targetDir) = {} /\ targetDir # homeDir
        THEN Step(fs, Goto(k, Mutating(cur.ctx, "rmdir", "done")), {}, {}, {})
        ELSE Step(fs, Goto(k, "done"), {}, {}, {})

\* fs.promises.rmdir(targetDir)
RestoreRmdir(k) ==
  /\ Running("restore")
  /\ At(k, "rmdir")
  /\ LET r == FsRmdir(fs, Target(k))
     IN Step(r.fs, Goto(k, IF r.ok THEN "done" ELSE "failed"), {},
             {Op("rmdir", Target(k))}, IF r.ok THEN {} ELSE {r.code})

(***************************************************************************)
(* Sessions of apply and restore                                           *)
(***************************************************************************)
Next ==
  \/ \E dryRun \in BOOLEAN : ExecApply(dryRun)
  \/ \E dryRun \in BOOLEAN, filePath \in RestorePaths : ExecRestore(dryRun, filePath)
  \/ \E k \in DOMAIN tasks : ApplyReaddir(k)
  \/ \E k \in DOMAIN tasks : ApplyCheck(k)
  \/ \E k \in DOMAIN tasks : ApplySymlink(k)
  \/ \E k \in DOMAIN tasks : ApplyMkdir(k)
  \/ \E k \in DOMAIN tasks : RestoreReaddir(k)
  \/ \E k \in DOMAIN tasks : RestoreIsLink(k)
  \/ \E k \in DOMAIN tasks : RestoreUnlink(k)
  \/ \E k \in DOMAIN tasks : RestoreExists(k)
  \/ \E k \in DOMAIN tasks : RestoreEmpty(k)
  \/ \E k \in DOMAIN tasks : RestoreRmdir(k)
  \/ Finish

Spec == Init /\ [][Next]_vars


(***************************************************************************)
(* use, update, install: the commands that call external programs.  Only   *)
(* the invocations are modelled, with the success or failure of each as an *)
(* input; git leaves the modelled source tree as it finds it, except that  *)
(* a clone creates baseDir with the content of the repository.             *)
(***************************************************************************)
GIT_CLONE == "git clone"
GIT_STATUS == "git status"
GIT_ADD == "git add"
GIT_COMMIT == "git commit"
GIT_PUSH == "git push"
GIT_PULL == "git pull"
CURL == "curl"
CHMOD == "chmod"

Exec(command) == Op("exec", <<command>>)

\* mutating(execSync)(command): the commands among these that are invoked
Gated(ctx, commands) ==
  SelectSeq(commands, LAMBDA c : Mutating(ctx, "invoke", "placeholder") = "invoke")

\* execSync called for each command in turn, up to the first one that exits
\* non-zero and throws
RunCommands(commands, failing) ==
  LET hit == {i \in 1..Len(commands) : commands[i] = failing}
      stop == IF hit = {} THEN Len(commands)
              ELSE CHOOSE i \in hit : \A j \in hit : i <= j
  IN [invoked |-> {commands[i] : i \in 1..stop}, failed |-> hit # {}]

\* what git clone leaves at baseDir
Clone(f) ==
  LET root == PathResolve(baseDir)
      repo == {<<root, Dir>>, <<root \o <<DOT_GIT>>, Dir>>,
               <<root \o <<NAME_A>>, File(<<"1">>)>>}
  IN [p \in DOMAIN f \cup {e[1] : e \in repo} |->
        IF p \in DOMAIN f THEN f[p] ELSE (CHOOSE e \in repo : e[1] = p)[2]]

WithOps(st, ops) == [st EXCEPT !.ops = @ \cup ops]

\* use: clone when baseDir is missing, then apply
UseStart(f, ctx, failing) ==
  LET run == RunCommands(IF IsExists(f, baseDir) THEN << >>
                         ELSE Gated(ctx, <<GIT_CLONE>>), failing)
      ops == {Exec(c) : c \in run.invoked}
  IN IF run.failed THEN Started(f, {}, ops, {failing}, << >>, NoTasks)
     ELSE WithOps(ApplyStart(IF GIT_CLONE \in run.invoked THEN Clone(f) ELSE f,
                             ctx), ops)

ExecUse(dryRun, failing) ==
  Begin("use", Context(dryRun), EMPTY, UseStart(fs, Context(dryRun), failing))

\* update: push (status, then add, commit and push when the tree is dirty),
\* pull, then apply
UpdateStart(f, ctx, dirty, failing) ==
  LET push == <<GIT_STATUS>>
              \o (IF dirty THEN Gated(ctx, <<GIT_ADD, GIT_COMMIT, GIT_PUSH>>)
                  ELSE << >>)
      pull == <<GIT_PULL>>
      \* execSync with cwd: baseDir fails at once when baseDir is no directory
      fails == IF FsIsDir(f, baseDir) THEN failing ELSE GIT_STATUS
      run == RunCommands(push \o pull, fails)
      ops == {Exec(c) : c \in run.invoked \ {GIT_STATUS}}
  IN IF run.failed THEN Started(f, {}, ops, {fails}, << >>, NoTasks)
     ELSE WithOps(ApplyStart(f, ctx), ops)

ExecUpdate(dryRun, dirty, failing) ==
  Begin("update", Context(dryRun), EMPTY,
        UpdateStart(fs, Context(dryRun), dirty, failing))

\* install: download the module over modulePath and make it executable
InstallStart(f, ctx, modulePath, failing) ==
  IF modulePath = EMPTY THEN Started(f, {}, {}, {}, << >>, NoTasks)
  ELSE LET run == RunCommands(Gated(ctx, <<CURL>>) \o Gated(ctx, <<CHMOD>>),
                              failing)
           ops == {Exec(c) : c \in run.invoked}
       IN IF run.failed THEN Started(f, {}, ops, {failing}, << >>, NoTasks)
          ELSE Started(f, {[sign |-> "ok", target |-> modulePath, source |-> EMPTY]},
                       ops, {}, << >>, NoTasks)

ExecInstall(dryRun, modulePath, failing) ==
  Begin("install", Context(dryRun), EMPTY,
        InstallStart(fs, Context(dryRun), modulePath, failing))

ExternalCommands ==
  {GIT_CLONE, GIT_STATUS, GIT_ADD, GIT_COMMIT, GIT_PUSH, GIT_PULL, CURL, CHMOD}

\* the exit status of the process.  The catch of use, of push and of pull
\* calls process.exit(e.exitCode || 1), and an error of execSync carries no
\* exitCode; any other error leaves exec as a rejection, which the catch at
\* the top of the module prints without setting a status.
ExitStatus(c) ==
  IF c.cmd = "use" /\ c.errs # {} THEN 1
  ELSE IF c.cmd = "update" /\ c.errs \cap ExternalCommands # {} THEN 1
  ELSE 0

\* the module path of the running script, EMPTY when it is unknown
ModulePaths == {EMPTY, <<"/", "m">>}

\* trees for the sessions with external commands: with and without baseDir
CommandFilesystems ==
  { FsOf({<<<< >>, Dir>>}),
    FsOf({<<<< >>, Dir>>, <<<<HOME>>, Dir>>}),
    FsOf({<<<< >>, Dir>>, <<<<SRC>>, Dir>>, <<<<HOME>>, Dir>>,
          <<<<SRC, NAME_A>>, File(<<"1">>)>>}),
    FsOf({<<<< >>, Dir>>, <<<<SRC>>, Dir>>, <<<<HOME>>, Dir>>,
          <<<<SRC, NAME_A>>, File(<<"1">>)>>, <<<<SRC, NAME_D>>, Dir>>,
          <<<<SRC, NAME_D, NAME_B>>, File(<<"2">>)>>,
          <<<<HOME, NAME_A>>, Link(<<"/", "x">>)>>}) }

InitCommands ==
  /\ fs \in CommandFilesystems
  /\ baseDir \in {<<"/", "s">>, <<"s">>}
  /\ homeDir \in {<<"/", "h">>}
  /\ cur = NoCommand
  /\ last = NoCommand
  /\ tasks = NoTasks
  /\ ncmds = 0
  /\ other = Idle

NextCommands ==
  \/ Next
  \/ \E dryRun \in BOOLEAN, failing \in ExternalCommands \cup {"none"} :
       ExecUse(dryRun, failing)
  \/ \E dryRun \in BOOLEAN, dirty \in BOOLEAN,
        failing \in ExternalCommands \cup {"none"} :
       ExecUpdate(dryRun, dirty, failing)
  \/ \E dryRun \in BOOLEAN, modulePath \in ModulePaths,
        failing \in ExternalCommands \cup {"none"} :
       ExecInstall(dryRun, modulePath, failing)

SpecCommands == InitCommands /\ [][NextCommands]_vars

(***************************************************************************)
(* ls                                                                      *)
(***************************************************************************)
Linked(target, source) ==
  [sign |-> "linked", target |-> target, source |-> source]
NotLinked(target) == [sign |-> "unmanaged", target |-> target, source |-> EMPTY]

\* ls up to processDir(baseDir): nothing is done when a root is missing
LsStart(f, ctx) ==
  IF ~IsExists(f, homeDir) \/ ~IsExists(f, baseDir)
  THEN Started(f, {}, {}, {}, << >>, NoTasks)
  ELSE Started(f, {}, {}, {}, GetIgnoreFunction(f, ctx),
               baseDir :> Task("dir", "readdir", EMPTY))

\* ls never reads the dry-run flag
ExecLs == Begin("ls", Context(FALSE), EMPTY, LsStart(fs, Context(FALSE)))

\* processDir of ls: readdir, then one call per entry that is not ignored
LsReaddir(k) ==
  /\ Running("ls")
  /\ At(k, "readdir")
  /\ IF ~FsIsDir(fs, k)
     THEN Step(fs, Goto(k, "failed"), {}, {}, {ReaddirCode(fs, k)})
     ELSE LET files == {e \in FsReaddir(fs, k) :
                          /\ ~IsIgnored(cur.ignore, e.name)
                          /\ e.kind \in {"file", "dir"}}
              KindOf(s) == (CHOOSE e \in files : PathJoin(k, e.name) = s).kind
              entries == [s \in {PathJoin(k, e.name) : e \in files} |->
                            Task(KindOf(s),
                                 IF KindOf(s) = "file" THEN "check" ELSE "readdir",
                                 k)]
          IN Step(fs, entries @@ Goto(k, "wait"), {}, {}, {})

\* file.isFile() && await isExists(target)
LsCheck(k) ==
  /\ Running("ls")
  /\ At(k, "check")
  /\ Step(fs, Goto(k, IF IsExists(fs, Target(k)) THEN "islink" ELSE "done"),
          {}, {}, {})

\* isSymbolicLinkFrom(target, baseDir) and the line that is printed
LsIsLink(k) ==
  /\ Running("ls")
  /\ At(k, "islink")
  /\ LET target == Target(k)
     IN Step(fs, Goto(k, "done"),
             {IF IsSymbolicLinkFrom(fs, target, baseDir)
              THEN Linked(target, k) ELSE NotLinked(target)}, {}, {})

NextLs ==
  \/ Next
  \/ ExecLs
  \/ \E k \in DOMAIN tasks : LsReaddir(k)
  \/ \E k \in DOMAIN tasks : LsCheck(k)
  \/ \E k \in DOMAIN tasks : LsIsLink(k)

SIBLING == <<"s", "2">>
ELSEWHERE == <<"y">>

\* what occupies /h/a before a session of apply, restore and ls: nothing, a
\* file with the content of the source file, a file with the text of the
\* link value, a directory, a link into the source tree, a dangling link, a
\* link to a file elsewhere, a link into the directory /s2 next to /s
OccupiedA ==
  { {},
    { <<<<HOME, NAME_A>>, File(<<"1">>)>> },
    { <<<<HOME, NAME_A>>, File(<<"/", "s", "/", "a">>)>> },
    { <<<<HOME, NAME_A>>, Dir>> },
    { <<<<HOME, NAME_A>>, Link(<<"/", "s", "/", "a">>)>> },
    { <<<<HOME, NAME_A>>, Link(<<"/", "x">>)>> },
    { <<<<HOME, NAME_A>>, Link(<<"/", "y">>)>> },
    { <<<<HOME, NAME_A>>, Link(<<"/", "s", "2", "/", "a">>)>> } }

\* what occupies /h/d: nothing, or the directory with a link into the source
OccupiedD ==
  { {},
    { <<<<HOME, NAME_D>>, Dir>>,
      <<<<HOME, NAME_D, NAME_B>>, Link(<<"/", "s", "/", "d", "/", "b">>)>> } }

\* the source tree /s with a and d/b, the files /y and /s2/a, and the target
\* /h, missing or with what occupies the mirrored paths
LsFilesystems ==
  LET common == { <<<< >>, Dir>>, <<<<SRC>>, Dir>>,
                  <<<<SRC, NAME_A>>, File(<<"1">>)>>,
                  <<<<SRC, NAME_D>>, Dir>>,
                  <<<<SRC, NAME_D, NAME_B>>, File(<<"2">>)>>,
                  <<<<SIBLING>>, Dir>>,
                  <<<<SIBLING, NAME_A>>, File(<<"5">>)>>,
                  <<<<ELSEWHERE>>, File(<<"6">>)>> }
  IN { FsOf(common) }
     \cup { FsOf(common \cup {<<<<HOME>>, Dir>>} \cup ta \cup td) :
              ta \in OccupiedA, td \in OccupiedD }

InitLs ==
  /\ fs \in LsFilesystems
  /\ baseDir \in {<<"/", "s">>, <<"s">>}
  /\ homeDir = <<"/", "h">>
  /\ cur = NoCommand
  /\ last = NoCommand
  /\ tasks = NoTasks
  /\ ncmds = 0
  /\ other = Idle

SpecLs == InitLs /\ [][NextLs]_vars

\* sessions in which the two trees overlap: homeDir inside baseDir (missing,
\* empty, holding a managed link), homeDir the same directory as baseDir,
\* and baseDir inside homeDir
NestedSessions ==
  LET inner == { <<<< >>, Dir>>, <<<<SRC>>, Dir>>,
                 <<<<SRC, NAME_A>>, File(<<"1">>)>> }
      nested(entries) == [fs |-> FsOf(inner \cup entries),
                          baseDir |-> <<"/", "s">>,
                          homeDir |-> <<"/", "s", "/", "h">>]
  IN { nested({}),
       nested({ <<<<SRC, HOME>>, Dir>> }),
       nested({ <<<<SRC, HOME>>, Dir>>,
                <<<<SRC, HOME, NAME_A>>, Link(<<"/", "s", "/", "a">>)>> }),
       [fs |-> FsOf(inner \cup { <<<<SRC, NAME_D>>, Dir>> }),
        baseDir |-> <<"/", "s">>, homeDir |-> <<"/", "s">>],
       [fs |-> FsOf({ <<<< >>, Dir>>, <<<<HOME>>, Dir>>, <<<<HOME, SRC>>, Dir>>,
                      <<<<HOME, SRC, NAME_A>>, File(<<"1">>)>>,
                      <<<<HOME, SRC, SRC>>, Dir>>,
                      <<<<HOME, SRC, SRC, NAME_B>>, File(<<"2">>)>> }),
        baseDir |-> <<"/", "h", "/", "s">>, homeDir |-> <<"/", "h">>] }

InitNested ==
  /\ \E n \in NestedSessions :
       fs = n.fs /\ baseDir = n.baseDir /\ homeDir = n.homeDir
  /\ cur = NoCommand
  /\ last = NoCommand
  /\ tasks = NoTasks
  /\ ncmds = 0
  /\ other = Idle

SpecNested == InitNested /\ [][NextLs]_vars

(***************************************************************************)
(* Options: --exclude and --excludes-file                                  *)
(***************************************************************************)
Unset == [kind |-> "unset", val |-> << >>]

\* addOption(key, value) of parseArgv, for a value that is not empty: the
\* first value is kept as a string, a later one turns the option into a list
AddOption(parsed, value) ==
  IF parsed.kind = "unset" THEN [kind |-> "string", val |-> value]
  ELSE [kind |-> "array",
        val |-> IF parsed.kind = "array" THEN Append(parsed.val, value)
                ELSE <<parsed.val, value>>]

RECURSIVE ParseOption(_, _)
\* the loop of parseArgv over the values given for one option
ParseOption(values, parsed) ==
  IF values = << >> THEN parsed
  ELSE ParseOption(Tail(values), AddOption(parsed, Head(values)))

\* [].concat(params.exclude || [])
ExcludeList(parsed) ==
  IF parsed.kind = "unset" THEN << >>
  ELSE IF parsed.kind = "string" THEN <<parsed.val>>
  ELSE parsed.val

\* the store passed to contextProvider.run by exec, with the options given
ContextWith(dryRun, excludes, excludesFile) ==
  [dryRun |-> dryRun,
   exclude |-> ExcludeList(ParseOption(excludes, Unset)),
   excludesFile |-> IF excludesFile = EMPTY THEN PathJoin(baseDir, DOTIGNORE)
                    ELSE excludesFile]

ExecApplyWith(dryRun, excludes, excludesFile) ==
  Begin("apply", ContextWith(dryRun, excludes, excludesFile), EMPTY,
        ApplyStart(fs, ContextWith(dryRun, excludes, excludesFile)))

ExecLsWith(excludes, excludesFile) ==
  Begin("ls", ContextWith(FALSE, excludes, excludesFile), EMPTY,
        LsStart(fs, ContextWith(FALSE, excludes, excludesFile)))

BOOTSTRAP_SH == <<"b", "o", "o", "t", "s", "t", "r", "a", "p", ".", "s", "h">>
NODE_MODULES == <<"n", "o", "d", "e", "_", "m", "o", "d", "u", "l", "e", "s">>
PACKAGE_JSON == <<"p", "a", "c", "k", "a", "g", "e", ".", "j", "s", "o", "n">>
FOO == <<"f", "o", "o">>
CUSTOM == <<"i">>

\* the values of --exclude, and of --excludes-file (EMPTY: not given)
Excludes == { << >>, <<NAME_A>>, <<NAME_A, FOO>> }
ExcludesFiles == { EMPTY, <<"/", "i">> }

\* a source tree with names of the built-in list and the mandatory names, at
\* the top and inside the directory foo
IgnoredNamesTree ==
  { <<<<SRC, NAME_A>>, File(<<"1">>)>>,
    <<<<SRC, NODE_MODULES>>, Dir>>,
    <<<<SRC, NODE_MODULES, NAME_C>>, File(<<"2">>)>>,
    <<<<SRC, DOT_GIT>>, Dir>>,
    <<<<SRC, DOT_GIT, NAME_C>>, File(<<"4">>)>>,
    <<<<SRC, FOO>>, Dir>>,
    <<<<SRC, FOO, PACKAGE_JSON>>, File(<<"5">>)>>,
    <<<<SRC, FOO, README_MD>>, File(<<"3">>)>> }

IgnoreTrees ==
  { \* the tree of the test 'should ignore files from .dotignore', with the
    \* ignore file holding the two names only
    { <<<<SRC, DOTIGNORE>>, File(<<"b", "o", "o", "t", "s", "t", "r", "a", "p", ".", "s", "h", "\n", "n", "o", "d", "e", "_", "m", "o", "d", "u", "l", "e", "s">>)>>,
      <<<<SRC, BOOTSTRAP_SH>>, File(<<"2">>)>>,
      <<<<SRC, NODE_MODULES>>, Dir>>,
      <<<<SRC, NODE_MODULES, NAME_C>>, File(<<"2">>)>>,
      <<<<SRC, FOO>>, Dir>>,
      <<<<SRC, FOO, NAME_B>>, File(<<"1">>)>> },
    \* no ignore file
    IgnoredNamesTree,
    \* an ignore file with a padded line and empty lines
    IgnoredNamesTree \cup { <<<<SRC, DOTIGNORE>>, File(<<" ", "a", "\n", "\n">>)>> },
    \* an ignore file outside the source tree, naming a directory
    IgnoredNamesTree \cup { <<<<CUSTOM>>, File(<<"f", "o", "o", "/">>)>> } }

InitIgnore ==
  /\ fs \in { FsOf({<<<< >>, Dir>>, <<<<SRC>>, Dir>>, <<<<HOME>>, Dir>>} \cup tree) :
                tree \in IgnoreTrees }
  /\ baseDir = <<"/", "s">>
  /\ homeDir = <<"/", "h">>
  /\ cur = NoCommand
  /\ last = NoCommand
  /\ tasks = NoTasks
  /\ ncmds = 0
  /\ other = Idle

NextIgnore ==
  \/ \E dryRun \in BOOLEAN, excludes \in Excludes, excludesFile \in ExcludesFiles :
       ExecApplyWith(dryRun, excludes, excludesFile)
  \/ \E excludes \in Excludes, excludesFile \in ExcludesFiles :
       ExecLsWith(excludes, excludesFile)
  \/ \E k \in DOMAIN tasks : ApplyReaddir(k)
  \/ \E k \in DOMAIN tasks : ApplyCheck(k)
  \/ \E k \in DOMAIN tasks : ApplySymlink(k)
  \/ \E k \in DOMAIN tasks : ApplyMkdir(k)
  \/ \E k \in DOMAIN tasks : LsReaddir(k)
  \/ \E k \in DOMAIN tasks : LsCheck(k)
  \/ \E k \in DOMAIN tasks : LsIsLink(k)
  \/ Finish

SpecIgnore == InitIgnore /\ [][NextIgnore]_vars

(***************************************************************************)
(* Sessions over deeper trees: nested directories, ignored names whose     *)
(* links exist, and a target directory that is a link to its sibling       *)
(***************************************************************************)
NAME_E == <<"e">>

ExecRestoreWith(excludes, excludesFile) ==
  Begin("restore", ContextWith(FALSE, excludes, excludesFile), EMPTY,
        RestoreStart(fs, ContextWith(FALSE, excludes, excludesFile), EMPTY))

\* a link to the source path with the given segments
LinkTo(segs) == Link(<<"/">> \o JoinWith(segs, "/"))

\* the source tree of the test 'should remove nested directories': a
\* directory inside a directory
NestedTree ==
  { <<<<SRC, NAME_D>>, Dir>>,
    <<<<SRC, NAME_D, NAME_B>>, File(<<"1">>)>>,
    <<<<SRC, NAME_D, NAME_E>>, Dir>>,
    <<<<SRC, NAME_D, NAME_E, NAME_C>>, File(<<"2">>)>> }

\* what an earlier apply of the nested tree has left below /h
NestedLinks ==
  { <<<<HOME>>, Dir>>,
    <<<<HOME, NAME_D>>, Dir>>,
    <<<<HOME, NAME_D, NAME_B>>, LinkTo(<<SRC, NAME_D, NAME_B>>)>>,
    <<<<HOME, NAME_D, NAME_E>>, Dir>>,
    <<<<HOME, NAME_D, NAME_E, NAME_C>>, LinkTo(<<SRC, NAME_D, NAME_E, NAME_C>>)>> }

\* the target before the session, for the nested tree: missing, empty, fully
\* linked, linked with a file of the user in the inner directory, linked
\* with a file of the user in place of the link b, a file in place of d
NestedTargets ==
  { {},
    { <<<<HOME>>, Dir>> },
    NestedLinks,
    NestedLinks \cup { <<<<HOME, NAME_D, NAME_E, NAME_U>>, File(<<"8">>)>> },
    (NestedLinks \ { <<<<HOME, NAME_D, NAME_B>>, LinkTo(<<SRC, NAME_D, NAME_B>>)>> })
      \cup { <<<<HOME, NAME_D, NAME_B>>, File(<<"9">>)>> },
    { <<<<HOME>>, Dir>>, <<<<HOME, NAME_D>>, File(<<"7">>)>> } }

\* a source tree whose entries all have ignored names (the ignore file lists
\* a), each with its managed link in the target
LinkedIgnoredTree ==
  { <<<<SRC, DOTIGNORE>>, File(NAME_A)>>,
    <<<<SRC, NAME_A>>, File(<<"1">>)>>,
    <<<<SRC, README_MD>>, File(<<"3">>)>>,
    <<<<SRC, DOT_GIT>>, Dir>>,
    <<<<SRC, DOT_GIT, NAME_C>>, File(<<"4">>)>>,
    <<<<HOME>>, Dir>>,
    <<<<HOME, NAME_A>>, LinkTo(<<SRC, NAME_A>>)>>,
    <<<<HOME, README_MD>>, LinkTo(<<SRC, README_MD>>)>>,
    <<<<HOME, DOT_GIT>>, Dir>>,
    <<<<HOME, DOT_GIT, NAME_C>>, LinkTo(<<SRC, DOT_GIT, NAME_C>>)>> }

\* two source directories with a file of the same name, and a target in
\* which the directory d is a symbolic link to the directory e
AliasedTree ==
  { <<<<SRC, NAME_D>>, Dir>>,
    <<<<SRC, NAME_D, NAME_B>>, File(<<"1">>)>>,
    <<<<SRC, NAME_E>>, Dir>>,
    <<<<SRC, NAME_E, NAME_B>>, File(<<"2">>)>>,
    <<<<HOME>>, Dir>>,
    <<<<HOME, NAME_E>>, Dir>>,
    <<<<HOME, NAME_D>>, LinkTo(<<HOME, NAME_E>>)>> }

WalkFilesystems ==
  { FsOf({<<<< >>, Dir>>, <<<<SRC>>, Dir>>} \cup tree) :
      tree \in { NestedTree \cup t : t \in NestedTargets }
               \cup { LinkedIgnoredTree, AliasedTree } }

InitWalk ==
  /\ fs \in WalkFilesystems
  /\ baseDir = <<"/", "s">>
  /\ homeDir \in HomeDirForms
  /\ cur = NoCommand
  /\ last = NoCommand
  /\ tasks = NoTasks
  /\ ncmds = 0
  /\ other = Idle

NextWalk ==
  \/ Next
  \/ \E excludes \in Excludes \ {<< >>} : ExecRestoreWith(excludes, EMPTY)

SpecWalk == InitWalk /\ [][NextWalk]_vars

(***************************************************************************)
(* Sessions that exclude one pattern from a source tree of one file: the   *)
(* pattern matcher on names and patterns of letters, '.', '*', '+', '?'    *)
(***************************************************************************)
GlobNames ==
  { <<"a", ".", "b">>, <<"a", "x", "b">>, <<"a", "+", "b">>, <<"a", "a", "b">>,
    <<"a", "b">>, <<"b">>, <<"a", "?", "b">> }

GlobPatterns ==
  { <<"a", ".", "b">>, <<"a", "*">>, <<"*", "b">>, <<"a", "+", "b">>,
    <<"a", "?", "b">>, <<"b">>, <<"b", "/">>, <<"a", "b", "/", "/">> }

InitGlob ==
  /\ fs \in { FsOf({ <<<< >>, Dir>>, <<<<SRC>>, Dir>>, <<<<HOME>>, Dir>>,
                     <<<<SRC, name>>, File(<<"1">>)>> }) : name \in GlobNames }
  /\ baseDir = <<"/", "s">>
  /\ homeDir = <<"/", "h">>
  /\ cur = NoCommand
  /\ last = NoCommand
  /\ tasks = NoTasks
  /\ ncmds = 0
  /\ other = Idle

NextGlob ==
  \/ \E dryRun \in BOOLEAN, pattern \in GlobPatterns :
       ExecApplyWith(dryRun, <<pattern>>, EMPTY)
  \/ \E k \in DOMAIN tasks : ApplyReaddir(k)
  \/ \E k \in DOMAIN tasks : ApplyCheck(k)
  \/ \E k \in DOMAIN tasks : ApplySymlink(k)
  \/ Finish

SpecGlob == InitGlob /\ [][NextGlob]_vars

(***************************************************************************)
(* Two commands in one process: each exec runs its command inside          *)
(* contextProvider.run with its own store, and the event loop runs the     *)
(* pending calls of either command, one awaited call at a time.  homeDir   *)
(* exists in these sessions, so the start of apply changes nothing.        *)
(***************************************************************************)
\* the event loop turns to the calls of the other command; a call of that
\* command sees the store of that command
Switch ==
  /\ cur.active \/ other.cur.active
  /\ cur' = other.cur
  /\ tasks' = other.tasks
  /\ other' = [cur |-> cur, tasks |-> tasks]
  /\ UNCHANGED <<fs, baseDir, homeDir, last, ncmds>>

ConcurrentFilesystems ==
  { FsOf({ <<<< >>, Dir>>, <<<<SRC>>, Dir>>, <<<<HOME>>, Dir>>,
           <<<<SRC, NAME_A>>, File(<<"1">>)>>,
           <<<<SRC, NAME_D>>, Dir>>,
           <<<<SRC, NAME_D, NAME_B>>, File(<<"2">>)>> } \cup ta) :
      ta \in { {}, { <<<<HOME, NAME_A>>, File(<<"9">>)>> } } }

InitConcurrent ==
  /\ fs \in ConcurrentFilesystems
  /\ baseDir = <<"/", "s">>
  /\ homeDir = <<"/", "h">>
  /\ cur = NoCommand
  /\ last = NoCommand
  /\ tasks = NoTasks
  /\ ncmds = 0
  /\ other = Idle

NextConcurrent ==
  \/ \E dryRun \in BOOLEAN : ExecApply(dryRun)
  \/ \E k \in DOMAIN tasks : ApplyReaddir(k)
  \/ \E k \in DOMAIN tasks : ApplyCheck(k)
  \/ \E k \in DOMAIN tasks : ApplySymlink(k)
  \/ \E k \in DOMAIN tasks : ApplyMkdir(k)
  \/ Switch
  \/ Finish

SpecConcurrent == InitConcurrent /\ [][NextConcurrent]_vars

(***************************************************************************)
(* Sessions of restore <path> with a directory: inside the source tree,    *)
(* the target directory itself, and a directory outside both               *)
(***************************************************************************)
\* /y, a directory of the user outside baseDir and homeDir
OutsideTree ==
  { <<<<ELSEWHERE>>, Dir>>,
    <<<<ELSEWHERE, NAME_A>>, File(<<"5">>)>>,
    <<<<ELSEWHERE, NAME_D>>, Dir>> }

OutsideFilesystems ==
  { FsOf({ <<<< >>, Dir>>, <<<<SRC>>, Dir>>,
           <<<<SRC, NAME_A>>, File(<<"1">>)>>,
           <<<<SRC, NAME_D>>, Dir>>,
           <<<<SRC, NAME_D, NAME_B>>, File(<<"2">>)>>,
           <<<<HOME>>, Dir>> } \cup OutsideTree \cup th) :
      th \in { {},
               { <<<<HOME, NAME_D>>, Dir>> },
               { <<<<HOME, NAME_A>>, LinkTo(<<SRC, NAME_A>>)>>,
                 <<<<HOME, NAME_D>>, Dir>>,
                 <<<<HOME, NAME_D, NAME_B>>, LinkTo(<<SRC, NAME_D, NAME_B>>)>> } } }

\* the directory given as <path>
DirectoryPaths ==
  { PathJoin(baseDir, NAME_D), homeDir, <<"/">> \o ELSEWHERE,
    PathJoin(<<"/">> \o ELSEWHERE, NAME_D) }

InitOutside ==
  /\ fs \in OutsideFilesystems
  /\ baseDir = <<"/", "s">>
  /\ homeDir = <<"/", "h">>
  /\ cur = NoCommand
  /\ last = NoCommand
  /\ tasks = NoTasks
  /\ ncmds = 0
  /\ other = Idle

NextOutside ==
  \/ \E dryRun \in BOOLEAN, filePath \in DirectoryPaths : ExecRestore(dryRun, filePath)
  \/ \E k \in DOMAIN tasks : RestoreReaddir(k)
  \/ \E k \in DOMAIN tasks : RestoreIsLink(k)
  \/ \E k \in DOMAIN tasks : RestoreUnlink(k)
  \/ \E k \in DOMAIN tasks : RestoreExists(k)
  \/ \E k \in DOMAIN tasks : RestoreEmpty(k)
  \/ \E k \in DOMAIN tasks : RestoreRmdir(k)
  \/ Finish

SpecOutside == InitOutside /\ [][NextOutside]_vars

(***************************************************************************)
(* Properties                                                              *)
(***************************************************************************)
\* the running command has settled; fs is the tree it leaves
Done(cmd) == cur.active /\ cur.cmd = cmd /\ Settled(tasks)

RealRun(c) == ~c.ctx.dryRun
Succeeded(c) == c.errs = {}

IsPrefix(xs, ys) == Len(xs) <= Len(ys) /\ SubSeq(ys, 1, Len(xs)) = xs

\* the entries of the source tree, as their segments below baseDir
SourceEntries(f, kind) ==
  LET root == PathResolve(baseDir)
  IN {SubSeq(p, Len(root) + 1, Len(p)) :
        p \in {q \in DOMAIN f : /\ IsPrefix(root, q)
                                /\ q # root
                                /\ f[q].kind = kind}}

\* no segment of the entry matches an ignore rule of the command
Eligible(c, rel) ==
  \A i \in 1..Len(rel) : ~IsIgnored(GetIgnoreFunction(c.before, c.ctx), rel[i])

\* the mirrored place of a source entry, and the source path apply links to
Mirrored(rel) == PathResolve(homeDir) \o rel
SourcePath(rel) == PathJoin(baseDir, JoinWith(rel, "/"))

FilesMirrored ==
  \A rel \in SourceEntries(cur.before, "file") :
     Eligible(cur, rel) =>
       /\ Mirrored(rel) \in DOMAIN fs
       /\ Mirrored(rel) \notin DOMAIN cur.before
            => fs[Mirrored(rel)] = Link(SourcePath(rel))

C3_ApplyIdempotent ==
  (/\ Done("apply") /\ RealRun(cur)
   /\ last.cmd = "apply" /\ RealRun(last) /\ Succeeded(last)) =>
    /\ cur.ops = {}
    /\ cur.errs = {}
    /\ fs = cur.before

\* C4 as stated: apply followed by restore, both without error and with the
\* same arguments, leaves the tree that was there before apply.
C4_RoundTrip ==
  (/\ Done("restore") /\ RealRun(cur) /\ Succeeded(cur) /\ cur.path = EMPTY
   /\ last.cmd = "apply" /\ RealRun(last) /\ Succeeded(last)) =>
    fs = last.before

\* C5 as stated: for a source file whose mirrored path was occupied before
\* apply, by whatever entry, apply attempts no symlink and raises no error.
C5_OccupiedIsNoOp ==
  (cur.active /\ cur.cmd = "apply") =>
    \A k \in DOMAIN tasks :
       (tasks[k].kind = "file" /\ FsLstat(cur.before, Target(k)) # "none") =>
         /\ Op("symlink", Target(k)) \notin cur.ops
         /\ tasks[k].pc # "failed"

\* C6 as stated: the directory homeDir still exists after restore.
C6_RestoreKeepsRoot ==
  (Done("restore") /\ FsIsDir(cur.before, homeDir)) => FsIsDir(fs, homeDir)

\* a file, or a link that is not a managed link
Unmanaged(f, p) ==
  \/ f[p].kind = "file"
  \/ f[p].kind = "link" /\ ~StartsWith(f[p].val, baseDir)

Ancestors(p) == {SubSeq(p, 1, n) : n \in 0..(Len(p) - 1)}

\* no directory has been removed from under an entry
NoOrphans(f) == \A p \in DOMAIN f : Ancestors(p) \subseteq DOMAIN f

\* C7 as stated: restore removes no directory that still holds an entry, and
\* every unmanaged entry that was there before restore is still there.
C7_RestoreKeepsUnmanaged ==
  (cur.active /\ cur.cmd = "restore") =>
    /\ NoOrphans(fs)
    /\ \A p \in DOMAIN cur.before :
         Unmanaged(cur.before, p) => p \in DOMAIN fs /\ fs[p] = cur.before[p]

\* the entry named by the <path> of restore, when it is a symbolic link
NamedLink(c) ==
  IF c.path # EMPTY /\ FsLstat(c.before, c.path) = "link"
  THEN {Lookup(c.before, c.path, FALSE).at} ELSE {}

\* C7 amended: restore removes no directory that still holds an entry, and
\* every file and every link that is not a managed link is still there
\* after restore, except a symbolic link named as the <path> of restore.
C7_RestoreKeepsUnmanagedAmended ==
  (cur.active /\ cur.cmd = "restore") =>
    /\ NoOrphans(fs)
    /\ \A p \in DOMAIN cur.before \ NamedLink(cur) :
         Unmanaged(cur.before, p) => p \in DOMAIN fs /\ fs[p] = cur.before[p]

\* C7 witness: restore has removed the link d/b and left the file d/u, and
\* so the directory d, in place
C7_Witness ==
  /\ Done("restore") /\ RealRun(cur)
  /\ <<HOME, NAME_D, NAME_B>> \in DOMAIN cur.before
  /\ <<HOME, NAME_D, NAME_B>> \notin DOMAIN fs
  /\ <<HOME, NAME_D, NAME_U>> \in DOMAIN fs

\* C8: under dry-run, apply and restore leave the whole tree as it was.
C8_DryRunChangesNothing ==
  (cur.active /\ cur.cmd \in {"apply", "restore"} /\ IsDryrun(cur.ctx)) =>
    fs = cur.before

\* C8 witness: a dry run has logged a creation or a removal it did not do
C8_Witness ==
  /\ cur.active /\ cur.cmd \in {"apply", "restore"} /\ IsDryrun(cur.ctx)
  /\ Settled(tasks)
  /\ cur.log # {}

\* the links a run has created, and the entries it has removed
Created(c, after) ==
  {p \in DOMAIN after \ DOMAIN c.before : after[p].kind = "link"}
Removed(c, after) == DOMAIN c.before \ DOMAIN after

\* C10 as stated: a run after a dry run of the same command from the same
\* tree logs the same lines, creates exactly the links the dry run logged
\* with "+" and removes exactly the links it logged with "-".
C10_DryRunIsPreview ==
  (/\ cur.active /\ cur.cmd \in {"apply", "restore"} /\ Settled(tasks)
   /\ RealRun(cur)
   /\ last.cmd = cur.cmd /\ last.path = cur.path /\ IsDryrun(last.ctx)) =>
    /\ cur.log = last.log
    /\ \A l \in last.log :
         l.sign = "+" =>
           /\ Lookup(fs, l.target, FALSE).st = "ok"
           /\ Lookup(fs, l.target, FALSE).at \in Created(cur, fs)
           /\ fs[Lookup(fs, l.target, FALSE).at].val = l.source
    /\ \A l \in last.log :
         l.sign = "-" => Lookup(cur.before, l.target, FALSE).at \in Removed(cur, fs)
    /\ Cardinality(Created(cur, fs)) = Cardinality({l \in last.log : l.sign = "+"})
    /\ \A p \in Removed(cur, fs) :
         cur.before[p].kind = "link" =>
           \E l \in last.log : l.sign = "-" /\ Lookup(cur.before, l.target, FALSE).at = p


\* C9 as stated: under dry-run no state-changing primitive is invoked, by
\* any command: no mkdir, symlink, unlink, rmdir, and no state-changing
\* external command.
C9_DryRunInvokesNothing ==
  (cur.active /\ IsDryrun(cur.ctx)) => cur.ops = {}


Range(seq) == {seq[i] : i \in 1..Len(seq)}

\* the names the two mandatory entries and the --exclude values stand for
AlwaysExcluded(c) == {DOT_GIT, README_MD} \cup Range(c.ctx.exclude)

\* the names of the base list: the trimmed non-empty lines of the ignore
\* file when it exists, the built-in names otherwise
ListedNames(c) ==
  IF FsLstat(c.before, c.ctx.excludesFile) = "file"
  THEN {StripTrailingSlash(l) :
          l \in Range(IgnoreFileLines(FsReadFile(c.before, c.ctx.excludesFile)))}
  ELSE Range(DefaultIgnorePatterns)

\* a source entry that has, at any depth, one of the names
Under(names, rel) == \E i \in 1..Len(rel) : rel[i] \in names

\* the segments below baseDir of a source path handled by a call
RelOf(source) ==
  SubSeq(PathResolve(source), Len(PathResolve(baseDir)) + 1,
         Len(PathResolve(source)))

\* what the running command has created
New(p) == p \in DOMAIN fs /\ p \notin DOMAIN cur.before

\* C11: the base list of apply is the ignore file's trimmed non-empty lines
\* when the file exists and the built-in list otherwise.  No source entry
\* under a name of the base list is visited or mirrored, at any depth, and
\* after a successful apply every source file and directory under no name of
\* the base list, of --exclude and of the mandatory two is mirrored: a name
\* of the built-in list that the ignore file leaves out is linked.
C11_IgnoreFileReplacesDefaults ==
  (cur.active /\ cur.cmd = "apply") =>
    /\ \A k \in DOMAIN tasks : ~Under(ListedNames(cur), RelOf(k))
    /\ \A kind \in {"file", "dir"} : \A rel \in SourceEntries(cur.before, kind) :
         IF Under(ListedNames(cur), rel) THEN ~New(Mirrored(rel))
         ELSE (/\ Settled(tasks) /\ RealRun(cur) /\ Succeeded(cur)
               /\ ~Under(AlwaysExcluded(cur), rel)) =>
                 /\ Mirrored(rel) \in DOMAIN fs
                 /\ New(Mirrored(rel)) =>
                      fs[Mirrored(rel)] = IF kind = "dir" THEN Dir
                                          ELSE Link(SourcePath(rel))

\* C11 witness: with an ignore file that lists neither name, a successful
\* apply has linked foo/package.json and node_modules/c
C11_Witness ==
  /\ Done("apply") /\ RealRun(cur) /\ Succeeded(cur)
  /\ FsLstat(cur.before, cur.ctx.excludesFile) = "file"
  /\ New(<<HOME, FOO, PACKAGE_JSON>>)
  /\ New(<<HOME, NODE_MODULES, NAME_C>>)
  /\ fs[<<HOME, NODE_MODULES, NAME_C>>].kind = "link"

IgnoreScenario(c) ==
  /\ c.ctx.exclude = << >>
  /\ c.ctx.excludesFile = PathJoin(baseDir, DOTIGNORE)
  /\ <<SRC, BOOTSTRAP_SH>> \in DOMAIN c.before
  /\ <<SRC, DOTIGNORE>> \in DOMAIN c.before
  /\ Children(c.before, <<HOME>>) = {}

\* C13 as stated: in the scenario, apply leaves exactly one entry at the top
\* of the target, foo.
C13_OnlyFoo ==
  (Done("apply") /\ RealRun(cur) /\ IgnoreScenario(cur)) =>
    Children(fs, <<HOME>>) = {<<HOME, FOO>>}

\* C13 amended: in the scenario, apply leaves exactly two entries at the top
\* of the target: the directory foo, and a link to the ignore file itself,
\* which the ignore file does not list.
C13_FooAndIgnoreFile ==
  (Done("apply") /\ RealRun(cur) /\ IgnoreScenario(cur)) =>
    /\ Children(fs, <<HOME>>) = {<<HOME, FOO>>, <<HOME, DOTIGNORE>>}
    /\ fs[<<HOME, FOO>>] = Dir
    /\ fs[<<HOME, DOTIGNORE>>] = Link(PathJoin(baseDir, DOTIGNORE))

\* C13 witness: apply has run on the scenario and linked foo/b
C13_Witness ==
  /\ Done("apply") /\ RealRun(cur) /\ IgnoreScenario(cur) /\ Succeeded(cur)
  /\ New(<<HOME, FOO, NAME_B>>)

\* the tree without one entry
Without(f, p) == [q \in DOMAIN f \ {p} |-> f[q]]

\* C14: restore <path> with the path of a symbolic link, managed or not,
\* removes that entry and leaves every other entry as it was, without error;
\* with the path of a plain file it changes nothing and invokes nothing.
C14_SinglePathRestore ==
  (Done("restore") /\ RealRun(cur) /\ cur.path # EMPTY) =>
    /\ FsLstat(cur.before, cur.path) = "link" =>
         /\ fs = Without(cur.before, Lookup(cur.before, cur.path, FALSE).at)
         /\ cur.errs = {}
    /\ FsLstat(cur.before, cur.path) = "file" =>
         /\ fs = cur.before
         /\ cur.ops = {}
         /\ cur.errs = {}

\* C14 witness: restore <path> has removed a link that points outside the
\* source tree, the only entry of its directory
C14_Witness ==
  /\ Done("restore") /\ RealRun(cur)
  /\ cur.path = PathJoin(homeDir, NAME_A)
  /\ Children(cur.before, <<HOME>>) = {<<HOME, NAME_A>>}
  /\ cur.before[<<HOME, NAME_A>>] = Link(<<"/", "x">>)
  /\ <<HOME, NAME_A>> \notin DOMAIN fs
  /\ <<HOME>> \in DOMAIN fs

\* restore walks a tree: no <path>, or a directory as <path>
TreeMode(c) ==
  c.cmd = "restore" /\ (c.path = EMPTY \/ FsLstat(c.before, c.path) = "dir")

\* a symbolic link whose raw value starts with baseDir
ManagedLink(f, p) == f[p].kind = "link" /\ IsPrefix(baseDir, f[p].val)

\* the unlinks of a restore over a tree, and the lines 'linked' of ls, are
\* all for symbolic links whose raw value starts with baseDir
OnlyManagedLinks ==
  /\ (cur.active /\ TreeMode(cur)) =>
       \A o \in cur.ops :
          o.op = "unlink" =>
            /\ Lookup(cur.before, o.arg, FALSE).st = "ok"
            /\ ManagedLink(cur.before, Lookup(cur.before, o.arg, FALSE).at)
  /\ (cur.active /\ cur.cmd = "ls") =>
       \A l \in cur.log :
          l.sign = "linked" =>
            /\ Lookup(fs, l.target, FALSE).st = "ok"
            /\ ManagedLink(fs, Lookup(fs, l.target, FALSE).at)

NamedDirectory(c) ==
  IF c.path # EMPTY /\ FsLstat(c.before, c.path) = "dir"
  THEN {Lookup(c.before, c.path, FALSE).at} ELSE {}

Destination(p, value) ==
  IF IsAbsolute(value) THEN PathResolve(value)
  ELSE NormalizeSegs(Parent(p) \o Split(value, "/"), FALSE, << >>)

\* a link whose destination is not below the source directory
Outside(f, p) ==
  /\ f[p].kind = "link"
  /\ ~IsPrefix(PathResolve(baseDir), Destination(p, f[p].val))

\* C16 as stated: a link whose destination lies outside the source tree is
\* never removed by a restore over the tree and never reported 'linked'.
C16_ManagedMeansUnderSource ==
  /\ (cur.active /\ TreeMode(cur)) =>
       \A p \in DOMAIN cur.before : Outside(cur.before, p) => p \in DOMAIN fs
  /\ (cur.active /\ cur.cmd = "ls") =>
       \A l \in cur.log :
          l.sign = "linked" => ~Outside(fs, Lookup(fs, l.target, FALSE).at)

\* C16 amended: a link whose destination lies outside the source tree and
\* whose raw value does not begin with the characters of baseDir is never
\* removed by a restore over the tree and never reported 'linked'.
C16_ManagedMeansPrefix ==
  /\ (cur.active /\ TreeMode(cur)) =>
       \A p \in DOMAIN cur.before :
          (Outside(cur.before, p) /\ ~IsPrefix(baseDir, cur.before[p].val))
            => p \in DOMAIN fs /\ fs[p] = cur.before[p]
  /\ (cur.active /\ cur.cmd = "ls") =>
       \A l \in cur.log :
          l.sign = "linked" =>
            LET p == Lookup(fs, l.target, FALSE).at
            IN ~Outside(fs, p) \/ IsPrefix(baseDir, fs[p].val)

\* C16 witness: a restore over the tree has unlinked the managed link d/b
\* and left in place the link from the mirrored path of a to the file /y
C16_Witness ==
  /\ Done("restore") /\ RealRun(cur) /\ cur.path = EMPTY
  /\ <<HOME, NAME_A>> \in DOMAIN fs
  /\ fs[<<HOME, NAME_A>>] = Link(<<"/", "y">>)
  /\ <<HOME, NAME_D, NAME_B>> \in DOMAIN cur.before
  /\ <<HOME, NAME_D, NAME_B>> \notin DOMAIN fs

\* the absolute path of an entry
AbsolutePath(p) == <<"/">> \o JoinWith(p, "/")

\* C17 as stated: with the same baseDir and homeDir strings, every link that
\* apply creates is classified as a managed link, and a restore over the
\* tree that follows the apply removes every link the apply created.
C17_CreatedLinksAreManaged ==
  /\ (cur.active /\ cur.cmd = "apply") =>
       \A p \in Created(cur, fs) : IsSymbolicLinkFrom(fs, AbsolutePath(p), baseDir)
  /\ (/\ Done("restore") /\ RealRun(cur) /\ Succeeded(cur) /\ cur.path = EMPTY
      /\ last.cmd = "apply" /\ RealRun(last)) =>
       \A p \in Created(last, cur.before) : p \notin DOMAIN fs

\* C18 as stated: ls changes nothing; it reports nothing and raises nothing
\* when a root is missing; otherwise it reports one line for every source
\* file that is not ignored and whose mirrored path is occupied, 'linked'
\* for a managed link and 'unmanaged' for any other entry, and no line for
\* anything else.
C18_LsReports ==
  Done("ls") =>
    /\ fs = cur.before
    /\ IF ~FsAccess(cur.before, homeDir) \/ ~FsAccess(cur.before, baseDir)
       THEN cur.log = {} /\ cur.errs = {}
       ELSE /\ \A rel \in SourceEntries(cur.before, "file") :
                 (Eligible(cur, rel) /\ Mirrored(rel) \in DOMAIN fs) =>
                   LET lines == {l \in cur.log : PathResolve(l.target) = Mirrored(rel)}
                   IN /\ Cardinality(lines) = 1
                      /\ \A l \in lines :
                           l.sign = IF ManagedLink(fs, Mirrored(rel))
                                    THEN "linked" ELSE "unmanaged"
            /\ \A l \in cur.log :
                 \E rel \in SourceEntries(cur.before, "file") :
                    PathResolve(l.target) = Mirrored(rel)

\* C19 as stated: while apply, ls or restore runs and after it, the entries
\* below baseDir are the entries that were there before the command, each as
\* it was, wherever homeDir lies.
C19_SourceTreeUntouched ==
  (cur.active /\ cur.cmd \in {"apply", "ls", "restore"}) =>
    \A p \in DOMAIN fs \cup DOMAIN cur.before :
       (IsPrefix(PathResolve(baseDir), p) /\ p # PathResolve(baseDir)) =>
         /\ p \in DOMAIN fs
         /\ p \in DOMAIN cur.before
         /\ fs[p] = cur.before[p]

\* C20 as stated: when an external command of use, update or install
\* fails, the process ends with a status that is not zero, and no later step
\* of the command has run: no pull after a failed push, no walk of apply.
C20_CollaboratorFailureExits ==
  (cur.active /\ cur.errs \cap ExternalCommands # {}) =>
    /\ ExitStatus(cur) # 0
    /\ tasks = NoTasks
    /\ cur.log = {}
    /\ GIT_PULL \notin cur.errs => Exec(GIT_PULL) \notin cur.ops

\* C21 as stated: a path that does not exist is a plain 'false' for apply,
\* ls and restore; in particular restore <path> with a path that names no
\* entry raises nothing and changes nothing.
C21_MissingPathIsNoError ==
  (/\ cur.active /\ cur.cmd = "restore" /\ cur.path # EMPTY
   /\ FsLstat(cur.before, cur.path) = "none") =>
    /\ cur.errs = {}
    /\ fs = cur.before

\* C22 as stated: every primitive that apply and restore invoke (mkdir,
\* symlink, unlink, rmdir) has, from before its invocation on, exactly one
\* log line of the command that names its target path.
C22_MutationsAreLogged ==
  (cur.active /\ cur.cmd \in {"apply", "restore"}) =>
    \A o \in cur.ops :
       Cardinality({l \in cur.log : l.target = o.arg}) = 1

\* the mirrored directory of rel holds, at every depth, nothing but the
\* mirrored directories of source directories and the managed links of
\* source files
OnlyMirrored(f, rel) ==
  /\ Mirrored(rel) \in DOMAIN f
  /\ f[Mirrored(rel)].kind = "dir"
  /\ \A p \in DOMAIN f :
       (IsPrefix(Mirrored(rel), p) /\ p # Mirrored(rel)) =>
         LET r == SubSeq(p, Len(PathResolve(homeDir)) + 1, Len(p))
         IN \/ f[p].kind = "dir" /\ r \in SourceEntries(f, "dir")
            \/ ManagedLink(f, p) /\ r \in SourceEntries(f, "file")

\* C23: in restore the cleanup of a directory (existence check, emptiness
\* check, rmdir) runs only when every call for an entry below that directory
\* is done, and after a successful restore of the tree every mirrored
\* directory other than the target root that held only mirrored directories
\* and managed links, at any depth, is gone with all it held.
C23_PostOrderPruning ==
  /\ (cur.active /\ cur.cmd = "restore") =>
       \A k \in DOMAIN tasks :
          tasks[k].pc \in {"cexists", "creaddir", "rmdir"} =>
            \A c \in DOMAIN tasks :
               (c # k /\ IsPrefix(PathResolve(k), PathResolve(c))) =>
                 tasks[c].pc = "done"
  /\ (Done("restore") /\ RealRun(cur) /\ Succeeded(cur) /\ cur.path = EMPTY) =>
       \A rel \in SourceEntries(cur.before, "dir") :
          OnlyMirrored(cur.before, rel) =>
            \A p \in DOMAIN fs : ~IsPrefix(Mirrored(rel), p)

\* a restore has removed a chain of two nested directories of managed links
C23_Witness ==
  /\ Done("restore") /\ RealRun(cur) /\ Succeeded(cur) /\ cur.path = EMPTY
  /\ OnlyMirrored(cur.before, <<NAME_D>>)
  /\ OnlyMirrored(cur.before, <<NAME_D, NAME_E>>)
  /\ Mirrored(<<NAME_D, NAME_E, NAME_C>>) \in DOMAIN cur.before
  /\ Op("rmdir", Target(PathJoin(baseDir, NAME_D))) \in cur.ops
  /\ Mirrored(<<NAME_D>>) \notin DOMAIN fs

\* the calls of apply for the children of a source directory
VisitedChildren == {k \in DOMAIN tasks : tasks[k].parent # EMPTY}

\* C24 as stated: in an apply that is not a dry run, once a child of a source
\* directory is visited the mirrored target directory of that directory (for
\* baseDir: homeDir) exists as a directory.
C24_ParentDirectoryFirst ==
  (cur.active /\ cur.cmd = "apply" /\ RealRun(cur)) =>
    \A k \in VisitedChildren : FsIsDir(fs, Target(tasks[k].parent))

\* C24 amended: once a child of a source directory is visited, the mirrored
\* path of that directory is occupied, and if it was absent before the
\* command it is a directory whose mkdir the command has completed; a path
\* that was occupied by something else than a directory stays as it was.
C24_ParentDirectoryFirstAmended ==
  (cur.active /\ cur.cmd = "apply" /\ RealRun(cur)) =>
    \A k \in VisitedChildren :
       LET t == Target(tasks[k].parent)
       IN /\ IsExists(fs, t)
          /\ ~IsExists(cur.before, t) =>
               /\ FsIsDir(fs, t)
               /\ \E o \in cur.ops :
                     /\ o.op = "mkdir"
                     /\ Lookup(fs, o.arg, TRUE).at = Lookup(fs, t, TRUE).at
          /\ IsExists(cur.before, t) =>
               FsIsDir(fs, t) = FsIsDir(cur.before, t)

\* the link of d/e/c is being created below two directories that the apply
\* has made
C24_Witness ==
  /\ cur.active /\ cur.cmd = "apply" /\ RealRun(cur)
  /\ ~IsExists(cur.before, homeDir)
  /\ At(PathJoin(baseDir, <<"d", "/", "e", "/", "c">>), "symlink")
  /\ FsIsDir(fs, PathJoin(homeDir, <<"d", "/", "e">>))

\* C25: a successful restore of the tree has visited every source
\* directory and has removed the managed link at the mirrored path of every
\* source file, whatever the ignore file, the built-in list, --exclude and
\* the mandatory entries say about the names.
C25_RestoreIgnoresNothing ==
  (Done("restore") /\ RealRun(cur) /\ Succeeded(cur) /\ cur.path = EMPTY) =>
    /\ \A rel \in SourceEntries(cur.before, "dir") :
          SourcePath(rel) \in DOMAIN tasks
    /\ \A rel \in SourceEntries(cur.before, "file") :
          (/\ Mirrored(rel) \in DOMAIN cur.before
           /\ ManagedLink(cur.before, Mirrored(rel))) =>
            Mirrored(rel) \notin DOMAIN fs

\* a restore given --exclude=a has removed the links of a (excluded, and
\* listed in the ignore file), of README.md and of .git/c
C25_Witness ==
  /\ Done("restore") /\ RealRun(cur) /\ Succeeded(cur) /\ cur.path = EMPTY
  /\ NAME_A \in Range(cur.ctx.exclude)
  /\ NAME_A \in ListedNames(cur)
  /\ \A rel \in {<<NAME_A>>, <<README_MD>>, <<DOT_GIT, NAME_C>>} :
        /\ ~Eligible(cur, rel)
        /\ Mirrored(rel) \in DOMAIN cur.before
        /\ ManagedLink(cur.before, Mirrored(rel))
        /\ Mirrored(rel) \notin DOMAIN fs

\* the entry a call works on: where its mirrored path leads once the
\* symbolic links on the way are followed
Place(f, k) == Lookup(f, Target(k), FALSE)

\* C27 as stated: within one apply or one restore the calls for different
\* source entries work on different target entries, and no call fails on an
\* entry that a concurrent call of the same command has created (EEXIST) or
\* removed (ENOENT) in the meantime.
C27_SiblingsAreIndependent ==
  (cur.active /\ cur.cmd \in {"apply", "restore"} /\ RealRun(cur)) =>
    /\ \A k1, k2 \in DOMAIN tasks :
          (/\ k1 # k2
           /\ Place(fs, k1).st \in {"ok", "noent"}
           /\ Place(fs, k2).st \in {"ok", "noent"}) =>
            Place(fs, k1).at # Place(fs, k2).at
    /\ \A k \in DOMAIN tasks :
          (tasks[k].pc = "failed" /\ tasks[k].kind = "file") =>
            /\ "EEXIST" \in cur.errs => Place(cur.before, k).st # "noent"
            /\ "ENOENT" \in cur.errs => Place(cur.before, k).st # "ok"

RECURSIVE GlobMatch(_, _)
\* the whole name equals the pattern, '*' standing for any sequence of
\* characters and every other character for itself
GlobMatch(pattern, name) ==
  IF pattern = EMPTY THEN name = EMPTY
  ELSE IF Head(pattern) = "*"
  THEN \/ GlobMatch(Tail(pattern), name)
       \/ name # EMPTY /\ GlobMatch(pattern, Tail(name))
  ELSE /\ name # EMPTY
       /\ Head(name) = Head(pattern)
       /\ GlobMatch(Tail(pattern), Tail(name))

\* C26 as stated: the predicate of apply is true of a name iff the whole name
\* equals some pattern of the list, one trailing '/' stripped, with '*' for
\* any sequence of characters and every other character for itself; so a
\* source file whose mirrored path is free is left unlinked by a successful
\* apply iff such a pattern exists.
C26_WholeNameGlob ==
  (cur.active /\ cur.cmd = "apply") =>
    LET patterns == {StripTrailingSlash(p) :
                       p \in ListedNames(cur) \cup AlwaysExcluded(cur)}
        Matched(name) == \E p \in patterns : GlobMatch(p, name)
    IN /\ \A name \in GlobNames : IsIgnored(cur.ignore, name) <=> Matched(name)
       /\ (Settled(tasks) /\ RealRun(cur) /\ Succeeded(cur)) =>
            \A rel \in SourceEntries(cur.before, "file") :
               Mirrored(rel) \notin DOMAIN cur.before =>
                 (Mirrored(rel) \in DOMAIN fs <=> ~Matched(rel[1]))

\* the event loop turns from one command to the other
Turn ==
  cur' = other.cur /\ tasks' = other.tasks /\ other' = [cur |-> cur, tasks |-> tasks]

\* a step of the running command, not a turn of the event loop
SameCommand == cur.active /\ cur'.active /\ ~Turn

\* C28: with two apply commands at work, no step changes or removes an entry
\* that exists; a mkdir or symlink call whose target has been occupied since
\* the existence check fails with EEXIST and leaves the tree as it is; a
\* failed call is not tried again, and the command that made it ends with
\* the error, its processDir(baseDir) rejected.
C28_LosingCallFails ==
  /\ [][/\ \A p \in DOMAIN fs : p \in DOMAIN fs' /\ fs'[p] = fs[p]
        /\ SameCommand =>
             \A k \in DOMAIN tasks :
                /\ (/\ tasks[k].pc \in {"symlink", "mkdir"}
                    /\ tasks'[k].pc # tasks[k].pc
                    /\ FsLstat(fs, Target(k)) # "none") =>
                     /\ tasks'[k].pc = "failed"
                     /\ "EEXIST" \in cur'.errs
                     /\ fs' = fs
                /\ tasks[k].pc = "failed" => tasks'[k].pc = "failed"]_vars
  /\ []((Done("apply") /\ \E k \in DOMAIN tasks : tasks[k].pc = "failed") =>
          /\ tasks[baseDir].pc = "failed"
          /\ cur.errs # {})

\* a call of one apply has failed on an entry that was absent when its
\* command started and that the other apply, still at work, has created
C28_Witness ==
  /\ cur.active /\ cur.cmd = "apply"
  /\ other.cur.active /\ other.cur.cmd = "apply"
  /\ "EEXIST" \in cur.errs
  /\ \E k \in DOMAIN tasks :
        /\ tasks[k].pc = "failed"
        /\ FsLstat(cur.before, Target(k)) = "none"
        /\ \E o \in other.cur.ops : o.arg = Target(k)

\* the gate calls of a command are skipped when its store says dry run
Skipped(c) == c.active /\ c.ctx.dryRun => c.ops = {}

\* every link a real command has announced and finished with was requested
\* from the filesystem
Executed(c, ts) ==
  (c.active /\ c.cmd = "apply" /\ ~c.ctx.dryRun) =>
    \A k \in DOMAIN ts :
       (ts[k].pc \in {"done", "failed"} /\ Plus(Target(k), k) \in c.log) =>
         Op("symlink", Target(k)) \in c.ops

\* C29: with a dry-run command and a real command at work in one process,
\* whatever the interleaving, no step of the dry-run command changes the
\* tree or invokes a primitive, every gate call of the real command is
\* executed, and the store of a command stays as it was when the command
\* started.
C29_ContextIsolation ==
  /\ [](Skipped(cur) /\ Skipped(other.cur))
  /\ [](Executed(cur, tasks) /\ Executed(other.cur, other.tasks))
  /\ [][/\ (SameCommand /\ cur.ctx.dryRun) => fs' = fs
        /\ SameCommand => cur'.ctx = cur.ctx
        /\ (~Turn /\ other.cur.active /\ other'.cur.active) =>
             other'.cur.ctx = other.cur.ctx]_vars

\* a real apply has created a link while a dry-run apply, started before
\* it, has announced a link and invoked nothing
C29_Witness ==
  /\ cur.active /\ ~cur.ctx.dryRun
  /\ \E o \in cur.ops : o.op = "symlink"
  /\ other.cur.active /\ other.cur.ctx.dryRun
  /\ other.cur.before = cur.before
  /\ other.cur.log # {}
  /\ other.cur.ops = {}
  /\ ~Settled(other.tasks)

C31_RestoreStaysBelowHome ==
  (cur.active /\ cur.cmd = "restore" /\ cur.path # EMPTY
   /\ FsLstat(cur.before, cur.path) = "dir") =>
    \A o \in cur.ops :
       o.op \in {"unlink", "rmdir"} =>
         LET at == Lookup(cur.before, o.arg, FALSE).at
         IN IsPrefix(PathResolve(homeDir), at) /\ at # PathResolve(homeDir)

=============================================================================
